---------------------------- MODULE Spec2Model ----------------------------
(***************************************************************************)
(* Model of karabo_bridge/simulation.py: the simulated detector            *)
(* (Detector.gen_data / gen_metadata), the train generator (generate),     *)
(* the message encoder (containize) and the two servers (start_gen and     *)
(* ServeInThread).                                                         *)
(*                                                                         *)
(* Python objects that are mutated in place (the per-source dicts of a     *)
(* train) live in a heap and are named by references, so that aliasing     *)
(* and in-place updates behave as they do in the program.                  *)
(***************************************************************************)
EXTENDS Integers, Sequences, FiniteSets, TLC

(***************************************************************************)
(* Bounds of the model.                                                    *)
(***************************************************************************)
MaxSources == 2     \* nsources ranges over 1..MaxSources
MaxRequests == 2    \* requests the clients send in one run
MaxClients == 2     \* clients connected to the server's endpoint
MaxPulls == 3       \* trains pulled from one generator on its own

(***************************************************************************)
(* Python ints are unbounded; they are kept as base-10^9 limbs, most       *)
(* significant first (10000000000 is <<10, 0>>).                           *)
(***************************************************************************)
LimbBase == 10^9

RECURSIVE BigInc(_)
BigInc(limbs) ==
    IF limbs = <<>> THEN <<1>>
    ELSE LET n == Len(limbs)
             last == limbs[n]
             front == SubSeq(limbs, 1, n - 1)
         IN  IF last + 1 < LimbBase THEN Append(front, last + 1)
             ELSE Append(BigInc(front), 0)

RECURSIVE BigAdd(_, _)
BigAdd(limbs, k) == IF k = 0 THEN limbs ELSE BigAdd(BigInc(limbs), k - 1)

(***************************************************************************)
(* Python values.                                                          *)
(***************************************************************************)
PyInt(limbs) == [t |-> "int", v |-> limbs]
PyStr(s) == [t |-> "str", v |-> s]
PyDigits(ds) == [t |-> "str", digits |-> ds]
PyBytes(s) == [t |-> "bytes", v |-> s]
PyList(s) == [t |-> "list", v |-> s]
PyTuple(s) == [t |-> "tuple", v |-> s]
PyFloat(ip, fp) == [t |-> "float", ip |-> ip, fp |-> fp]
PyRef(r) == [t |-> "ref", ref |-> r]
PyKey(k) == [t |-> "str", key |-> k]
NdArray(dtype, shape, content, buf) ==
    [t |-> "array", dtype |-> dtype, shape |-> shape, content |-> content,
     buf |-> buf, contig |-> TRUE]

IsArray(v) == v.t = "array"

(***************************************************************************)
(* Python dicts keep insertion order: keys is the order, val the mapping.  *)
(***************************************************************************)
EmptyDict == [keys |-> <<>>, val |-> <<>>]

DictHas(d, k) == k \in DOMAIN d.val

DictSet(d, k, v) ==
    IF DictHas(d, k) THEN [d EXCEPT !.val[k] = v]
    ELSE [keys |-> Append(d.keys, k), val |-> (k :> v) @@ d.val]

DictPop(d, k) ==
    [keys |-> SelectSeq(d.keys, LAMBDA x : x # k),
     val |-> [x \in (DOMAIN d.val) \ {k} |-> d.val[x]]]

RECURSIVE DictOf(_)
DictOf(pairs) ==
    IF pairs = <<>> THEN EmptyDict
    ELSE LET n == Len(pairs)
         IN  DictSet(DictOf(SubSeq(pairs, 1, n - 1)), pairs[n][1], pairs[n][2])

RECURSIVE DictUpdate(_, _, _)
DictUpdate(d, other, i) ==
    IF i > Len(other.keys) THEN d
    ELSE DictUpdate(DictSet(d, other.keys[i], other.val[other.keys[i]]),
                    other, i + 1)

(***************************************************************************)
(* Detector families (class attributes of AGIPDModule, AGIPD, LPD).        *)
(***************************************************************************)
Families == {"AGIPD", "AGIPDModule", "LPD"}

AGIPDModule_const_fields ==
    DictOf(<< <<(<<"checksum">>), PyBytes("00*16")>>,
              <<(<<"data">>), PyBytes("01*416")>>,
              <<(<<"dataId">>), PyInt(<<0>>)>>,
              <<(<<"linkId">>), PyInt(<<18, 446744069, 414584335>>)>>,
              <<(<<"magicNumberBegin">>), PyBytes("cefaefbe FDTX")>>,
              <<(<<"magicNumberEnd">>), PyBytes("cdabadde FDTX")>>,
              <<(<<"majorTrainFormatVersion">>), PyInt(<<2>>)>>,
              <<(<<"minorTrainFormatVersion">>), PyInt(<<1>>)>>,
              <<(<<"reserved">>), PyBytes("00*16")>>,
              <<(<<"status">>), PyInt(<<0>>)>> >>)

LPD_const_fields ==
    DictOf(<< <<(<<"checksum">>), PyBytes("11*16")>>,
              <<(<<"data">>), PyBytes("ff*416")>>,
              <<(<<"dataId">>), PyInt(<<0>>)>>,
              <<(<<"linkId">>), PyInt(<<18, 446744069, 414584320>>)>>,
              <<(<<"magicNumberBegin">>), PyBytes("cefaefbe FDTX")>>,
              <<(<<"magicNumberEnd">>), PyBytes("cdabadde FDTX")>>,
              <<(<<"majorTrainFormatVersion">>), PyInt(<<2>>)>>,
              <<(<<"minorTrainFormatVersion">>), PyInt(<<1>>)>>,
              <<(<<"reserved">>), PyBytes("00*16")>>,
              <<(<<"status">>), PyInt(<<0>>)>> >>)

AGIPDModule ==
    [pulses |-> 64, modules |-> 1, mod_y |-> 128, mod_x |-> 512,
     const_fields |-> AGIPDModule_const_fields]

AGIPD == [AGIPDModule EXCEPT !.modules = 16]

LPD ==
    [pulses |-> 300, modules |-> 16, mod_y |-> 256, mod_x |-> 256,
     const_fields |-> LPD_const_fields]

FamilyClass(family) ==
    CASE family = "AGIPD" -> AGIPD
      [] family = "AGIPDModule" -> AGIPDModule
      [] family = "LPD" -> LPD


(***************************************************************************)
(* Detector instances.  getDetector is always called without a source, so  *)
(* the source is the family's default; it is kept as its '/'-separated     *)
(* components.                                                             *)
(***************************************************************************)
DefaultSource(family) ==
    CASE family = "AGIPD" -> <<"SPB_DET_AGIPD1M-1", "DET", "detector">>
      [] family = "AGIPDModule" -> <<"SPB_DET_AGIPD1M-1", "DET", "0CH0:xtdf">>
      [] family = "LPD" -> <<"FXE_DET_LPD1M-1", "DET", "detector">>

RECURSIVE Join(_)
Join(parts) ==
    IF Len(parts) = 1 THEN parts[1]
    ELSE Join(SubSeq(parts, 1, Len(parts) - 1)) \o "/" \o parts[Len(parts)]

Generators == {"random", "zeros"}

\* Detector.getDetector followed by Detector.__init__: the value returned,
\* or the error raised.
getDetector(detector, corr, gen) ==
    IF detector \notin Families
    THEN [raised |-> "NotImplementedError: detector not available"]
    ELSE IF gen \notin Generators
    THEN [raised |-> "NotImplementedError: gen func not implemented"]
    ELSE [raised |-> "", family |-> detector, path |-> DefaultSource(detector),
          source |-> Join(DefaultSource(detector)), corrected |-> corr,
          genfunc |-> gen, cls |-> FamilyClass(detector)]

data_shape(det) ==
    <<det.cls.modules, det.cls.mod_y, det.cls.mod_x, det.cls.pulses>>

data_type(det) == IF det.corrected THEN "float32" ELSE "uint16"

ItemSize(dtype) ==
    CASE dtype = "float32" -> 4
      [] dtype = "uint16" -> 2
      [] dtype = "uint32" -> 4

(***************************************************************************)
(* Array elements are fixed-point numbers in units of 2^-15.  A float64    *)
(* drawn by uniform(1500, 1600) lies in [1500, 1600); a float32 in         *)
(* [1024, 2048) has a spacing of 2^-13, so the conversion rounds to the    *)
(* nearest multiple of 4 units (ties to the even multiple); the conversion *)
(* to uint16 truncates.                                                    *)
(***************************************************************************)
Unit == 2^15

UniformLow == 1500
UniformHigh == 1600

Draws == {UniformLow * Unit, UniformHigh * Unit - 1}

\* a conversion to uint16 that rounds up instead of truncating
astype_up(x, dtype) ==
    IF dtype = "float32"
    THEN LET q == x \div 4
             r == x % 4
         IN  IF r < 2 THEN 4 * q
             ELSE IF r > 2 THEN 4 * (q + 1)
             ELSE IF q % 2 = 0 THEN 4 * q ELSE 4 * (q + 1)
    ELSE ((x + Unit - 1) \div Unit) * Unit

astype(x, dtype) ==
    IF dtype = "float32"
    THEN LET q == x \div 4
             r == x % 4
         IN  IF r < 2 THEN 4 * q
             ELSE IF r > 2 THEN 4 * (q + 1)
             ELSE IF q % 2 = 0 THEN 4 * q ELSE 4 * (q + 1)
    ELSE (x \div Unit) * Unit

\* Detector.random: draws are the values np.random.uniform returned.
random(det, draws, buf) ==
    NdArray(data_type(det), data_shape(det),
            [kind |-> "elems",
             elems |-> [i \in 1..Len(draws) |-> astype(draws[i], data_type(det))]],
            buf)

\* Detector.zeros
zeros(det, draws, buf) ==
    NdArray(data_type(det), data_shape(det),
            [kind |-> "elems", elems |-> [i \in 1..Len(draws) |-> 0]], buf)

genfunc(det, draws, buf) ==
    IF det.genfunc = "random" THEN random(det, draws, buf)
    ELSE zeros(det, draws, buf)

nbytes(arr) ==
    arr.shape[1] * arr.shape[2] * arr.shape[3] * arr.shape[4]
        * ItemSize(arr.dtype)

\* Detector.corr_passport
corr_passport(det) ==
    LET domain == det.path[1]
    IN  <<domain \o "/CAL/THRESHOLDING_Q1M1",
          domain \o "/CAL/OFFSET_CORR_Q1M1",
          domain \o "/CAL/RELGAIN_CORR_Q1M1">>

(***************************************************************************)
(* time() returns a float; str(timestamp) is "<ip>.<fp>", fp a sequence of *)
(* digits.                                                                 *)
(***************************************************************************)
Timestamps ==
    {PyFloat("1510000000", <<"2", "5">>),
     PyFloat("1510000001", <<"1", "2", "3", "4", "5", "6", "7">>)}

FracWidth == 18

ljust(ds, width) ==
    IF Len(ds) >= width THEN ds
    ELSE ds \o [i \in 1..(width - Len(ds)) |-> "0"]

\* gen_metadata that stamps every record with the first train id
gen_metadata_stale(source, timestamp, trainId) ==
    DictOf(<< <<(<<"source">>), PyStr(source)>>,
              <<(<<"timestamp">>), timestamp>>,
              <<(<<"timestamp", "tid">>), PyInt(<<10, 0>>)>>,
              <<(<<"timestamp", "sec">>), PyStr(timestamp.ip)>>,
              <<(<<"timestamp", "frac">>),
                PyDigits(ljust(timestamp.fp, 18))>> >>)

\* Detector.gen_metadata: the record stored under meta[source].
gen_metadata(source, timestamp, trainId) ==
    DictOf(<< <<(<<"source">>), PyStr(source)>>,
              <<(<<"timestamp">>), timestamp>>,
              <<(<<"timestamp", "tid">>), PyInt(trainId)>>,
              <<(<<"timestamp", "sec">>), PyStr(timestamp.ip)>>,
              <<(<<"timestamp", "frac">>),
                PyDigits(ljust(timestamp.fp, FracWidth))>> >>)

(***************************************************************************)
(* A train is the pair (data, meta) of dicts from source name to a         *)
(* reference into heap, the heap holding the per-source dicts.  nbuf is    *)
(* the number of array buffers allocated so far.                           *)
(***************************************************************************)
NModuleSources == 16

gen_data_fields(det, trainId, timestamp, draws) ==
    LET img == genfunc(det, draws, 1)
        base == Join(SubSeq(det.path, 1, Len(det.path) - 1))
        sources == [i \in 1..NModuleSources |->
                       base \o "/" \o ToString(i - 1) \o "CH0:xtdf"]
        pulses == det.cls.pulses
        d1 == DictUpdate(det.cls.const_fields,
                DictOf(<< <<(<<"__intime">>), timestamp>>,
                  <<(<<"cellId">>),
                    NdArray("uint16", <<pulses>>,
                            [kind |-> "arange", n |-> pulses], 2)>>,
                  <<(<<"combinedFrom">>), PyList(sources)>>,
                  <<(<<"image", "data">>), img>>,
                  <<(<<"length">>),
                    NdArray("uint32", <<pulses, 1>>,
                            [kind |-> "full", v |-> nbytes(img)], 3)>>,
                  <<(<<"modulesPresents">>),
                    PyList([i \in 1..det.cls.modules |-> TRUE])>> >>), 1)
        d2 == IF det.corrected
              THEN DictUpdate(d1,
                     DictOf(<< <<(<<"image", "gain">>),
                       NdArray("uint16", data_shape(det),
                               [kind |-> "elems",
                                elems |-> [i \in 1..Len(draws) |-> 0]], 4)>>,
                       <<(<<"passport">>), PyList(corr_passport(det))>> >>), 1)
              ELSE d1
        nb == IF det.corrected THEN 5 ELSE 4
    IN  DictUpdate(d2,
          DictOf(<< <<(<<"pulseCount">>), PyInt(<<pulses>>)>>,
            <<(<<"pulseId">>),
              NdArray("uint16", <<pulses>>,
                      [kind |-> "arange", n |-> pulses], nb)>>,
            <<(<<"sources">>), PyList(sources)>>,
            <<(<<"trainId">>), PyInt(trainId)>> >>), 1)

\* Detector.gen_data
gen_data(det, trainId, timestamp, draws) ==
    [data |-> DictOf(<< <<det.source, 1>> >>),
     meta |-> DictOf(<< <<det.source, 2>> >>),
     heap |-> <<gen_data_fields(det, trainId, timestamp, draws),
                gen_metadata(det.source, timestamp, trainId)>>,
     nbuf |-> IF det.corrected THEN 5 ELSE 4]

\* copy.deepcopy of a per-source dict: a new dict whose arrays own new
\* buffers.
deepcopy(d, nbuf) ==
    [keys |-> d.keys,
     val |-> [k \in DOMAIN d.val |->
                IF IsArray(d.val[k]) THEN [d.val[k] EXCEPT !.buf = @ + nbuf]
                ELSE d.val[k]]]

\* data[src] = data[source]: the source's dict bound to src without a copy
copy_data_alias(t, source, src, nbuf0) ==
    [t EXCEPT !.data = DictSet(@, src, t.data.val[source])]

\* data[src] = copy.deepcopy(data[source]): the train with the copy
\* allocated and bound to src.
copy_data(t, source, src, nbuf0) ==
    [t EXCEPT !.heap = Append(@, deepcopy(t.heap[t.data.val[source]], t.nbuf)),
              !.data = DictSet(@, src, Len(t.heap) + 1),
              !.nbuf = @ + nbuf0]

\* meta[src] = copy.deepcopy(meta[source]); meta[src]['source'] = src
copy_meta(t, source, src) ==
    LET t1 == [t EXCEPT !.heap = Append(@, deepcopy(t.heap[t.meta.val[source]], 0)),
                        !.meta = DictSet(@, src, Len(t.heap) + 1)]
        r == t1.meta.val[src]
    IN  [t1 EXCEPT !.heap[r] = DictSet(@, <<"source">>, PyStr(src))]

RECURSIVE copy_sources(_, _, _, _, _)
copy_sources(t, source, i, nsources, nbuf0) ==
    IF i >= nsources THEN t
    ELSE LET src == source \o "-" \o ToString(i + 1)
         IN  copy_sources(copy_meta(copy_data(t, source, src, nbuf0), source, src),
                          source, i + 1, nsources, nbuf0)

TID_EPOCH == <<10, 0>>

\* generate without its increment of tid_counter
advance_stuck(tid_counter) == tid_counter

\* tid_counter += 1
advance(tid_counter) == BigInc(tid_counter)

\* One iteration of the loop of generate: the train yielded for tid_counter.
generate(det, nsources, tid_counter, timestamp, draws) ==
    LET t0 == gen_data(det, tid_counter, timestamp, draws)
    IN  IF nsources > 1
        THEN LET t1 == copy_sources(t0, det.source, 0, nsources, t0.nbuf)
             IN  [t1 EXCEPT !.data = DictPop(@, det.source),
                            !.meta = DictPop(@, det.source)]
        ELSE t0

(***************************************************************************)
(* Serialization.  ser_func is msgpack.dumps (with msgpack_numpy patched   *)
(* in) or pickle.dumps.  msgpack has no tuple, so a tuple is written as a  *)
(* list, and an array is written as msgpack_numpy's extension record of    *)
(* type name, shape and bytes; pickle keeps both as they are.  A reference *)
(* is serialized as the dict it refers to at the time of the call.         *)
(***************************************************************************)
Formats == {"msgpack", "pickle"}

tobytes(arr) == [itemsize |-> ItemSize(arr.dtype), content |-> arr.content]

PackLeaf(fmt, v) ==
    IF v.t = "tuple"
    THEN IF fmt = "msgpack" THEN PyList(v.v) ELSE v
    ELSE IF v.t = "array"
    THEN IF fmt = "msgpack"
         THEN [t |-> "nd", type |-> v.dtype, shape |-> v.shape,
               data |-> tobytes(v)]
         ELSE [t |-> "array", dtype |-> v.dtype, shape |-> v.shape,
               content |-> v.content]
    ELSE v

PackFlat(fmt, d) ==
    [t |-> "dict", keys |-> d.keys,
     val |-> [k \in DOMAIN d.val |-> PackLeaf(fmt, d.val[k])]]

PackValue(fmt, heap, v) ==
    IF v.t = "ref" THEN PackFlat(fmt, heap[v.ref]) ELSE PackLeaf(fmt, v)

PackDict(fmt, heap, d) ==
    [t |-> "dict", keys |-> d.keys,
     val |-> [k \in DOMAIN d.val |-> PackValue(fmt, heap, d.val[k])]]

\* ser_func(obj) for a dict of values
ser_func(fmt, heap, d) ==
    [t |-> "packed", fmt |-> fmt, body |-> PackDict(fmt, heap, d)]

\* ser_func(data) for the dict from source name to per-source dict
ser_func_data(fmt, heap, data) ==
    [t |-> "packed", fmt |-> fmt,
     body |-> [t |-> "dict", keys |-> data.keys,
               val |-> [src \in DOMAIN data.val |->
                          PackDict(fmt, heap, heap[data.val[src]])]]]

\* memoryview(array), after np.ascontiguousarray when the array is not
\* C-contiguous (the copy owns a new buffer, written 0)
memoryview(arr) ==
    [t |-> "raw", buf |-> IF arr.contig THEN arr.buf ELSE 0,
     bytes |-> tobytes(arr)]

(***************************************************************************)
(* containize.                                                             *)
(***************************************************************************)
Versions == {"1.0", "2.0", "2.1", "2.2"}

\* lines 225-226: data[key].update({'metadata': value}) for every source
RECURSIVE merge_whole(_, _)
merge_whole(t, i) ==
    IF i > Len(t.meta.keys) THEN t
    ELSE LET key == t.meta.keys[i]
         IN  merge_whole(
                 [t EXCEPT !.heap[t.data.val[key]] =
                      DictSet(@, <<"metadata">>, PyRef(t.meta.val[key]))],
                 i + 1)

\* m[mkey] = mval: the metadata fields merged in without their prefix
RECURSIVE prefixed_bare(_, _, _)
prefixed_bare(value, m, j) ==
    IF j > Len(value.keys) THEN m
    ELSE prefixed_bare(value,
                       DictSet(m, value.keys[j], value.val[value.keys[j]]),
                       j + 1)

\* lines 233-235: m['metadata.'+mkey] = mval
RECURSIVE prefixed(_, _, _)
prefixed(value, m, j) ==
    IF j > Len(value.keys) THEN m
    ELSE prefixed(value,
                  DictSet(m, <<"metadata">> \o value.keys[j],
                          value.val[value.keys[j]]),
                  j + 1)

\* lines 232-236
RECURSIVE merge_prefixed(_, _)
merge_prefixed(t, i) ==
    IF i > Len(t.meta.keys) THEN t
    ELSE LET key == t.meta.keys[i]
             m == prefixed(t.heap[t.meta.val[key]], EmptyDict, 1)
         IN  merge_prefixed(
                 [t EXCEPT !.heap[t.data.val[key]] = DictUpdate(@, m, 1)],
                 i + 1)

\* the arrays left in the dict
pop_all_none(d, arr_keys, j) == d

RECURSIVE pop_all(_, _, _)
pop_all(d, arr_keys, j) ==
    IF j > Len(arr_keys) THEN d
    ELSE pop_all(DictPop(d, arr_keys[j]), arr_keys, j + 1)

\* lines 238-248: r.t is the train, r.newdata the list of
\* (src, data[src], arr, meta[src])
RECURSIVE extract_arrays(_, _)
extract_arrays(r, i) ==
    IF i > Len(r.t.data.keys) THEN r
    ELSE LET src == r.t.data.keys[i]
             ref == r.t.data.val[src]
             props == r.t.heap[ref]
             arr_keys == SelectSeq(props.keys,
                                   LAMBDA k : IsArray(props.val[k]))
             arr == [keys |-> arr_keys,
                     val |-> [k \in {arr_keys[j] : j \in 1..Len(arr_keys)} |->
                                props.val[k]]]
         IN  extract_arrays(
                 [t |-> [r.t EXCEPT !.heap[ref] = pop_all(@, arr_keys, 1)],
                  newdata |-> Append(r.newdata,
                                     [src |-> src, dic |-> ref, arr |-> arr,
                                      meta |-> r.t.meta.val[src]])],
                 i + 1)

\* array parts whose raw bytes are never appended
RECURSIVE array_parts_nobytes(_, _, _, _, _)
array_parts_nobytes(fmt, heap, src, arr, j) ==
    IF j > Len(arr.keys) THEN <<>>
    ELSE LET path == arr.keys[j]
             array == arr.val[path]
             header == DictOf(<< <<(<<"source">>), PyStr(src)>>,
                                 <<(<<"content">>), PyStr("array")>>,
                                 <<(<<"path">>), PyKey(path)>>,
                                 <<(<<"dtype">>), PyStr(array.dtype)>>,
                                 <<(<<"shape">>), PyTuple(array.shape)>> >>)
         IN  <<ser_func(fmt, heap, header)>>
                 \o array_parts_nobytes(fmt, heap, src, arr, j + 1)

\* lines 258-264
RECURSIVE array_parts(_, _, _, _, _)
array_parts(fmt, heap, src, arr, j) ==
    IF j > Len(arr.keys) THEN <<>>
    ELSE LET path == arr.keys[j]
             array == arr.val[path]
             header == DictOf(<< <<(<<"source">>), PyStr(src)>>,
                                 <<(<<"content">>), PyStr("array")>>,
                                 <<(<<"path">>), PyKey(path)>>,
                                 <<(<<"dtype">>), PyStr(array.dtype)>>,
                                 <<(<<"shape">>), PyTuple(array.shape)>> >>)
         IN  <<ser_func(fmt, heap, header), memoryview(array)>>
                 \o array_parts(fmt, heap, src, arr, j + 1)

\* a dict header that never carries the metadata
dict_parts_nometa(fmt, heap, ser, vers, e) ==
    LET header == DictOf(<< <<(<<"source">>), PyStr(e.src)>>,
                            <<(<<"content">>), PyStr(ser)>> >>)
    IN  <<ser_func(fmt, heap, header), ser_func(fmt, heap, heap[e.dic])>>

\* lines 252-256
dict_parts(fmt, heap, ser, vers, e) ==
    LET h0 == DictOf(<< <<(<<"source">>), PyStr(e.src)>>,
                        <<(<<"content">>), PyStr(ser)>> >>)
        header == IF vers = "2.2"
                  THEN DictSet(h0, <<"metadata">>, PyRef(e.meta))
                  ELSE h0
    IN  <<ser_func(fmt, heap, header), ser_func(fmt, heap, heap[e.dic])>>

\* lines 250-266
RECURSIVE build_msg(_, _, _, _, _, _)
build_msg(fmt, heap, ser, vers, newdata, i) ==
    IF i > Len(newdata) THEN <<>>
    ELSE dict_parts(fmt, heap, ser, vers, newdata[i])
             \o array_parts(fmt, heap, newdata[i].src, newdata[i].arr, 1)
             \o build_msg(fmt, heap, ser, vers, newdata, i + 1)

\* lines 224-266: the list returned and the train as the call leaves it
encode(t, ser, fmt, vers) ==
    LET t1 == IF vers \in {"1.0", "2.0"} THEN merge_whole(t, 1)
              ELSE IF vers = "2.1" THEN merge_prefixed(t, 1)
              ELSE t
    IN  IF vers = "1.0"
        THEN [raised |-> "",
              msg |-> <<ser_func_data(fmt, t1.heap, t1.data)>>,
              train |-> t1]
        ELSE LET r == extract_arrays([t |-> t1, newdata |-> <<>>], 1)
             IN  [raised |-> "",
                  msg |-> build_msg(fmt, r.t.heap, ser, vers, r.newdata, 1),
                  train |-> r.t]

\* containize without the check of line 221
containize_unchecked(t, ser, fmt, vers) == encode(t, ser, fmt, vers)

\* containize(train_data, ser, ser_func, vers): the error raised, the list
\* returned and the train as the call leaves it.
containize(t, ser, fmt, vers) ==
    IF vers \notin Versions
    THEN [raised |-> "ValueError: Invalid version", msg |-> <<>>, train |-> t]
    ELSE encode(t, ser, fmt, vers)

(***************************************************************************)
(* The servers.                                                            *)
(*                                                                         *)
(* cfg is the argument list of start_gen or of ServeInThread(...).  pc is  *)
(* the position of the calling thread, tpc the position of the serving     *)
(* thread of ServeInThread.  The endpoint is a REP socket: after a request *)
(* has been received it delivers no other request until a reply has been   *)
(* sent; rep_peer is the client the pending reply goes to (0: none).       *)
(* nreq, nrecv, nnext and nsent count the requests sent by the clients,    *)
(* the requests received, the `next` requests among them and the replies.  *)
(* second is a second generate instance (of another server) with its own   *)
(* detector, its number of pulls and the train it yielded last.            *)
(* Clients are REQ sockets: one outstanding request each.                  *)
(***************************************************************************)
VARIABLES cfg, pc, tpc, sock, ctx, serialize, ser, det, generator, pulls,
          train, yielded, msg, err, interrupted, inbox, clients, rep_peer,
          request, events, stopper, nreq, nrecv, nnext, nsent, second

vars == <<cfg, pc, tpc, sock, ctx, serialize, ser, det, generator, pulls,
          train, yielded, msg, err, interrupted, inbox, clients, rep_peer,
          request, events, stopper, nreq, nrecv, nnext, nsent, second>>

config == <<cfg>>
calls == <<pc, tpc>>
setup == <<serialize, ser, det>>
source_vars == <<generator, pulls, train, yielded, msg>>
transport == <<sock, ctx, inbox, clients, rep_peer, request, events, stopper,
               nreq, nrecv, nnext, nsent>>

Variants == {"start_gen", "ServeInThread"}
SerArgs == {"msgpack", "pickle", "json"}
VersionArgs == Versions \cup {"3.0"}
DetectorArgs == Families \cup {"JUNGFRAU"}
GenArgs == Generators \cup {"ones"}
Requests == {"next", "hello"}
Clients == 1..MaxClients

NoTrain == [data |-> EmptyDict, meta |-> EmptyDict, heap |-> <<>>, nbuf |-> 0]
NoDetector == [raised |-> "unset"]
NoGenerator ==
    [det |-> NoDetector, nsources |-> 0, state |-> "none",
     tid_counter |-> <<>>, pulls |-> 0, yielded |-> NoTrain]

\* The argument lists the servers are started with: every serialization
\* and version argument, the default detector and corrected setting of
\* start_gen, the zeros generator, an unsupported detector and an
\* unsupported generator.
ServerArgs ==
    [variant : Variants, ser : SerArgs, version : VersionArgs,
     detector : {"AGIPD", "JUNGFRAU"}, corrected : {TRUE},
     nsources : 1..MaxSources, datagen : {"zeros", "ones"}]

Init ==
    /\ cfg \in ServerArgs
    /\ pc = IF cfg.variant = "start_gen" THEN "sg_bind" ELSE "t_ser"
    /\ tpc = "none"
    /\ sock = "unbound"
    /\ ctx = "none"
    /\ serialize = "none"
    /\ ser = cfg.ser
    /\ det = NoDetector
    /\ generator = [state |-> "none", tid_counter |-> <<>>]
    /\ pulls = 0
    /\ train = NoTrain
    /\ yielded = NoTrain
    /\ msg = <<>>
    /\ err = ""
    /\ interrupted = FALSE
    /\ inbox = <<>>
    /\ clients = [c \in Clients |-> "idle"]
    /\ rep_peer = 0
    /\ request = ""
    /\ events = {}
    /\ stopper = 0
    /\ nreq = 0
    /\ nrecv = 0
    /\ nnext = 0
    /\ nsent = 0
    /\ second = NoGenerator

(***************************************************************************)
(* Steps shared by both servers.                                           *)
(***************************************************************************)
\* if ser == 'msgpack' ... elif ser == 'pickle' ... else raise ValueError
choose_serializer(arg) ==
    IF arg = "msgpack"
    THEN [raised |-> "", serialize |-> "msgpack", ser |-> "msgpack"]
    ELSE IF arg = "pickle"
    THEN [raised |-> "", serialize |-> "pickle",
          ser |-> "pickle.DEFAULT_PROTOCOL"]
    ELSE [raised |-> "ValueError: Unknown serialisation format",
          serialize |-> "none", ser |-> arg]

\* socket.recv() on the REP socket: the oldest request is taken and the
\* socket owes its sender a reply.
socket_recv ==
    /\ inbox # <<>>
    /\ rep_peer = 0
    /\ request' = Head(inbox).req
    /\ rep_peer' = Head(inbox).client
    /\ inbox' = Tail(inbox)
    /\ nrecv' = nrecv + 1
    /\ nnext' = IF Head(inbox).req = "next" THEN nnext + 1 ELSE nnext

\* socket.send_multipart(msg): the reply goes to the sender of the request.
socket_send ==
    /\ rep_peer # 0
    /\ clients' = [clients EXCEPT ![rep_peer] = "idle"]
    /\ rep_peer' = 0
    /\ nsent' = nsent + 1

\* train = next(generator)
next_train ==
    \E timestamp \in Timestamps, draws \in [{1} -> Draws] :
        LET tid == IF generator.state = "created" THEN TID_EPOCH
                   ELSE generator.tid_counter
            t == generate(det, cfg.nsources, tid, timestamp, draws)
        IN  /\ generator' = [state |-> "suspended",
                             tid_counter |-> advance(tid)]
            /\ pulls' = pulls + 1
            /\ train' = t
            /\ yielded' = t
            /\ msg' = <<>>

(***************************************************************************)
(* start_gen                                                               *)
(***************************************************************************)
\* lines 294-297
SG_Bind ==
    /\ pc = "sg_bind"
    /\ ctx' = "open"
    /\ sock' = "bound"
    /\ pc' = "sg_ser"
    /\ UNCHANGED <<config, second, tpc, setup, source_vars, err, interrupted,
                   inbox, clients, rep_peer, request, events, stopper, nreq,
                   nrecv, nnext, nsent>>

\* lines 299-305
SG_Serializer ==
    /\ pc = "sg_ser"
    /\ LET r == choose_serializer(cfg.ser)
       IN  /\ serialize' = r.serialize
           /\ ser' = r.ser
           /\ err' = r.raised
           /\ pc' = IF r.raised = "" THEN "sg_det" ELSE "raised"
    /\ UNCHANGED <<config, second, tpc, det, source_vars, interrupted,
                   transport>>

\* lines 307-314
SG_Detector ==
    /\ pc = "sg_det"
    /\ LET d == getDetector(cfg.detector, cfg.corrected, cfg.datagen)
       IN  IF d.raised = ""
           THEN /\ det' = d
                /\ generator' = [state |-> "created", tid_counter |-> <<>>]
                /\ pc' = "sg_recv"
                /\ UNCHANGED err
           ELSE /\ err' = d.raised
                /\ pc' = "raised"
                /\ UNCHANGED <<det, generator>>
    /\ UNCHANGED <<config, second, tpc, serialize, ser, pulls, train, yielded,
                   msg, interrupted, transport>>

\* start_gen going on to the next recv after a wrong request
SG_Recv_continue ==
    /\ pc = "sg_recv"
    /\ sock = "bound"
    /\ socket_recv
    /\ pc' = IF request' = "next" THEN "sg_next" ELSE "sg_recv"
    /\ UNCHANGED <<config, second, tpc, setup, source_vars, err, interrupted,
                   sock, ctx, clients, events, stopper, nreq, nsent>>

\* lines 318-319 and 333-335
SG_Recv ==
    /\ pc = "sg_recv"
    /\ sock = "bound"
    /\ socket_recv
    /\ pc' = IF request' = "next" THEN "sg_next" ELSE "sg_finally"
    /\ UNCHANGED <<config, second, tpc, setup, source_vars, err, interrupted,
                   sock, ctx, clients, events, stopper, nreq, nsent>>

\* line 320
SG_Next ==
    /\ pc = "sg_next"
    /\ next_train
    /\ pc' = "sg_containize"
    /\ UNCHANGED <<config, second, tpc, setup, err, interrupted, transport>>

\* line 321
SG_Containize ==
    /\ pc = "sg_containize"
    /\ LET r == containize(train, ser, serialize, cfg.version)
       IN  /\ train' = r.train
           /\ msg' = r.msg
           /\ err' = r.raised
           /\ pc' = IF r.raised = "" THEN "sg_send" ELSE "sg_finally"
    /\ UNCHANGED <<config, second, tpc, setup, generator, pulls, yielded,
                   interrupted, transport>>

\* start_gen going back to recv without having sent the reply
SG_Send_noreply ==
    /\ pc = "sg_send"
    /\ pc' = "sg_recv"
    /\ UNCHANGED <<config, second, tpc, setup, source_vars, err, interrupted,
                   transport>>

\* lines 322-332
SG_Send ==
    /\ pc = "sg_send"
    /\ socket_send
    /\ pc' = "sg_recv"
    /\ UNCHANGED <<config, second, tpc, setup, source_vars, err, interrupted,
                   sock, ctx, inbox, request, events, stopper, nreq, nrecv,
                   nnext>>

\* A KeyboardInterrupt: caught inside the try block (lines 336-337),
\* propagating from the statements before it.
SG_KeyboardInterrupt ==
    /\ \/ /\ pc \in {"sg_recv", "sg_next", "sg_containize", "sg_send"}
          /\ pc' = "sg_finally"
          /\ UNCHANGED err
       \/ /\ pc \in {"sg_ser", "sg_det"}
          /\ pc' = "raised"
          /\ err' = "KeyboardInterrupt"
    /\ interrupted' = TRUE
    /\ UNCHANGED <<config, second, tpc, setup, source_vars, transport>>

\* lines 338-340
SG_Finally ==
    /\ pc = "sg_finally"
    /\ sock' = "closed"
    /\ ctx' = "destroyed"
    /\ pc' = IF err = "" THEN "returned" ELSE "raised"
    /\ UNCHANGED <<config, second, tpc, setup, source_vars, err, interrupted,
                   inbox, clients, rep_peer, request, events, stopper, nreq,
                   nrecv, nnext, nsent>>

(***************************************************************************)
(* ServeInThread                                                           *)
(***************************************************************************)
\* lines 347-357
T_Serializer ==
    /\ pc = "t_ser"
    /\ LET r == choose_serializer(cfg.ser)
       IN  /\ serialize' = r.serialize
           /\ ser' = r.ser
           /\ err' = r.raised
           /\ pc' = IF r.raised = "" THEN "t_det" ELSE "raised"
    /\ UNCHANGED <<config, second, tpc, det, source_vars, interrupted,
                   transport>>

\* lines 359-360
T_Detector ==
    /\ pc = "t_det"
    /\ LET d == getDetector(cfg.detector, cfg.corrected, cfg.datagen)
       IN  IF d.raised = ""
           THEN /\ det' = d
                /\ generator' = [state |-> "created", tid_counter |-> <<>>]
                /\ pc' = "t_bind"
                /\ UNCHANGED err
           ELSE /\ err' = d.raised
                /\ pc' = "raised"
                /\ UNCHANGED <<det, generator>>
    /\ UNCHANGED <<config, second, tpc, serialize, ser, pulls, train, yielded,
                   msg, interrupted, transport>>

\* lines 362-370
T_Bind ==
    /\ pc = "t_bind"
    /\ ctx' = "open"
    /\ sock' = "bound"
    /\ pc' = "constructed"
    /\ UNCHANGED <<config, second, tpc, setup, source_vars, err, interrupted,
                   inbox, clients, rep_peer, request, events, stopper, nreq,
                   nrecv, nnext, nsent>>

\* Thread.start(), lines 372-375
T_Start ==
    /\ pc = "constructed"
    /\ pc' = "started"
    /\ tpc' = "poll"
    /\ UNCHANGED <<config, second, setup, source_vars, err, interrupted,
                   transport>>

\* line 377: poll blocks until a registered socket is readable
T_Poll ==
    /\ tpc = "poll"
    /\ LET ready == (IF inbox # <<>> /\ rep_peer = 0 /\ sock = "bound"
                     THEN {"server_socket"} ELSE {})
                    \cup (IF stopper > 0 THEN {"stopper_r"} ELSE {})
       IN  /\ ready # {}
           /\ events' = ready
    /\ tpc' = "dispatch"
    /\ UNCHANGED <<config, second, pc, setup, source_vars, err, interrupted,
                   sock, ctx, inbox, clients, rep_peer, request, stopper, nreq,
                   nrecv, nnext, nsent>>

\* a serving loop that is left on an unrecognised request
T_Recv_break ==
    /\ tpc = "dispatch"
    /\ "server_socket" \in events
    /\ socket_recv
    /\ tpc' = IF request' = "next" THEN "t_next" ELSE "exited"
    /\ UNCHANGED <<config, second, pc, setup, source_vars, err, interrupted,
                   sock, ctx, clients, events, stopper, nreq, nsent>>

\* lines 378-380 and 385-386
T_Recv ==
    /\ tpc = "dispatch"
    /\ "server_socket" \in events
    /\ socket_recv
    /\ tpc' = IF request' = "next" THEN "t_next" ELSE "poll"
    /\ UNCHANGED <<config, second, pc, setup, source_vars, err, interrupted,
                   sock, ctx, clients, events, stopper, nreq, nsent>>

\* line 381
T_Next ==
    /\ tpc = "t_next"
    /\ next_train
    /\ tpc' = "t_containize"
    /\ UNCHANGED <<config, second, pc, setup, err, interrupted, transport>>

\* lines 382-383; an exception ends the thread
T_Containize ==
    /\ tpc = "t_containize"
    /\ LET r == containize(train, ser, serialize, cfg.version)
       IN  /\ train' = r.train
           /\ msg' = r.msg
           /\ err' = r.raised
           /\ tpc' = IF r.raised = "" THEN "t_send" ELSE "crashed"
    /\ UNCHANGED <<config, second, pc, setup, generator, pulls, yielded,
                   interrupted, transport>>

\* line 384
T_Send ==
    /\ tpc = "t_send"
    /\ socket_send
    /\ tpc' = "poll"
    /\ UNCHANGED <<config, second, pc, setup, source_vars, err, interrupted,
                   sock, ctx, inbox, request, events, stopper, nreq, nrecv,
                   nnext>>

\* a serving loop that also looks at the stop channel while it serves
T_Break_mid ==
    /\ \/ /\ tpc = "dispatch"
          /\ "server_socket" \notin events
          /\ "stopper_r" \in events
       \/ /\ tpc \in {"t_next", "t_containize", "t_send"}
          /\ stopper > 0
    /\ stopper' = stopper - 1
    /\ tpc' = "exited"
    /\ UNCHANGED <<config, second, pc, setup, source_vars, err, interrupted,
                   sock, ctx, inbox, clients, rep_peer, request, events, nreq,
                   nrecv, nnext, nsent>>

\* lines 387-389
T_Break ==
    /\ tpc = "dispatch"
    /\ "server_socket" \notin events
    /\ "stopper_r" \in events
    /\ stopper' = stopper - 1
    /\ tpc' = "exited"
    /\ UNCHANGED <<config, second, pc, setup, source_vars, err, interrupted,
                   sock, ctx, inbox, clients, rep_peer, request, events, nreq,
                   nrecv, nnext, nsent>>

\* line 392
T_StopSend ==
    /\ pc = "started"
    /\ stopper' = stopper + 1
    /\ pc' = "signalled"
    /\ UNCHANGED <<config, second, tpc, setup, source_vars, err, interrupted,
                   sock, ctx, inbox, clients, rep_peer, request, events, nreq,
                   nrecv, nnext, nsent>>

\* line 393: join returns once the serving thread has ended
T_Join ==
    /\ pc = "signalled"
    /\ tpc \in {"exited", "crashed"}
    /\ pc' = "joined"
    /\ UNCHANGED <<config, second, tpc, setup, source_vars, err, interrupted,
                   transport>>

\* line 394: destroying the context closes its sockets
T_Destroy ==
    /\ pc = "joined"
    /\ ctx' = "destroyed"
    /\ sock' = "closed"
    /\ pc' = "stopped"
    /\ UNCHANGED <<config, second, tpc, setup, source_vars, err, interrupted,
                   inbox, clients, rep_peer, request, events, stopper, nreq,
                   nrecv, nnext, nsent>>

(***************************************************************************)
(* A client sends a request (Client.next of the test suite sends `next`).  *)
(***************************************************************************)
ClientSend ==
    /\ sock = "bound"
    /\ nreq < MaxRequests
    /\ \E c \in Clients, r \in Requests :
          /\ clients[c] = "idle"
          /\ clients' = [clients EXCEPT ![c] = "waiting"]
          /\ inbox' = Append(inbox, [client |-> c, req |-> r])
    /\ nreq' = nreq + 1
    /\ UNCHANGED <<config, second, calls, setup, source_vars, err, interrupted,
                   sock, ctx, rep_peer, request, events, stopper, nrecv, nnext,
                   nsent>>

Next ==
    \/ SG_Bind \/ SG_Serializer \/ SG_Detector \/ SG_Recv \/ SG_Next
    \/ SG_Containize \/ SG_Send \/ SG_KeyboardInterrupt \/ SG_Finally
    \/ T_Serializer \/ T_Detector \/ T_Bind \/ T_Start \/ T_Poll \/ T_Recv
    \/ T_Next \/ T_Containize \/ T_Send \/ T_Break \/ T_StopSend \/ T_Join
    \/ T_Destroy
    \/ ClientSend

Spec == Init /\ [][Next]_vars

(***************************************************************************)
(* generate and containize on their own: a generator is pulled MaxPulls    *)
(* times and every train is encoded, for every detector family, corrected  *)
(* and raw data, both generators, both serializations, 1..MaxSources       *)
(* sources and every version argument.                                     *)
(***************************************************************************)
CodecArgs ==
    [variant : {"codec"}, ser : Formats, version : VersionArgs,
     detector : Families, corrected : BOOLEAN, nsources : 1..MaxSources,
     datagen : Generators]

CodecInit ==
    /\ cfg \in CodecArgs
    /\ pc = "c_next"
    /\ tpc = "none"
    /\ sock = "unbound"
    /\ ctx = "none"
    /\ serialize = choose_serializer(cfg.ser).serialize
    /\ ser = choose_serializer(cfg.ser).ser
    /\ det = getDetector(cfg.detector, cfg.corrected, cfg.datagen)
    /\ generator = [state |-> "created", tid_counter |-> <<>>]
    /\ pulls = 0
    /\ train = NoTrain
    /\ yielded = NoTrain
    /\ msg = <<>>
    /\ err = ""
    /\ interrupted = FALSE
    /\ inbox = <<>>
    /\ clients = [c \in Clients |-> "idle"]
    /\ rep_peer = 0
    /\ request = ""
    /\ events = {}
    /\ stopper = 0
    /\ nreq = 0
    /\ nrecv = 0
    /\ nnext = 0
    /\ nsent = 0
    /\ second = NoGenerator

\* next(generator)
Codec_Next ==
    /\ pc = "c_next"
    /\ pulls < MaxPulls
    /\ next_train
    /\ pc' = "c_containize"
    /\ UNCHANGED <<config, second, tpc, setup, err, interrupted, transport>>

\* containize(train, ser, serialize, version)
Codec_Containize ==
    /\ pc = "c_containize"
    /\ LET r == containize(train, ser, serialize, cfg.version)
       IN  /\ train' = r.train
           /\ msg' = r.msg
           /\ err' = r.raised
    /\ pc' = "c_next"
    /\ UNCHANGED <<config, second, tpc, setup, generator, pulls, yielded,
                   interrupted, transport>>

CodecNext == Codec_Next \/ Codec_Containize

CodecSpec == CodecInit /\ [][CodecNext]_vars

(***************************************************************************)
(* Two generate instances, as two servers in one process hold them, pulled *)
(* in any interleaving, MaxPulls times each.  Each instance is a generator *)
(* object with its own frame: its detector, nsources and tid_counter are   *)
(* locals of that frame.  The timestamp (time.time()) and the draws        *)
(* (np.random) of a pull are inputs of the pull.                           *)
(***************************************************************************)
TwoArgs ==
    [variant : {"two"}, ser : {"msgpack"}, version : {"2.2"},
     detector : Families, corrected : BOOLEAN, nsources : 1..MaxSources,
     datagen : Generators]

TwoInit ==
    /\ cfg \in TwoArgs
    /\ pc = "two"
    /\ tpc = "none"
    /\ sock = "unbound"
    /\ ctx = "none"
    /\ serialize = choose_serializer(cfg.ser).serialize
    /\ ser = choose_serializer(cfg.ser).ser
    /\ det = getDetector(cfg.detector, cfg.corrected, cfg.datagen)
    /\ generator = [state |-> "created", tid_counter |-> <<>>]
    /\ pulls = 0
    /\ train = NoTrain
    /\ yielded = NoTrain
    /\ msg = <<>>
    /\ err = ""
    /\ interrupted = FALSE
    /\ inbox = <<>>
    /\ clients = [c \in Clients |-> "idle"]
    /\ rep_peer = 0
    /\ request = ""
    /\ events = {}
    /\ stopper = 0
    /\ nreq = 0
    /\ nrecv = 0
    /\ nnext = 0
    /\ nsent = 0
    /\ \E family \in Families :
          second = [det |-> getDetector(family, cfg.corrected, cfg.datagen),
                    nsources |-> cfg.nsources, state |-> "created",
                    tid_counter |-> <<>>, pulls |-> 0, yielded |-> NoTrain]

\* next(generator) on the second instance
next_second ==
    \E timestamp \in Timestamps, draws \in [{1} -> Draws] :
        LET tid == IF second.state = "created" THEN TID_EPOCH
                   ELSE second.tid_counter
            t == generate(second.det, second.nsources, tid, timestamp, draws)
        IN  second' = [second EXCEPT !.state = "suspended",
                                     !.tid_counter = advance(tid),
                                     !.pulls = @ + 1,
                                     !.yielded = t]

\* next(generator) of the first instance
Two_NextFirst ==
    /\ pc = "two"
    /\ pulls < MaxPulls
    /\ next_train
    /\ UNCHANGED <<config, second, calls, setup, err, interrupted, transport>>

\* a generate that keeps tid_counter in a module-level variable: the pull
\* of the second instance takes and advances the counter of the first
Two_NextSecond_shared ==
    /\ pc = "two"
    /\ second.pulls < MaxPulls
    /\ generator.state = "suspended"
    /\ \E timestamp \in Timestamps, draws \in [{1} -> Draws] :
          LET tid == generator.tid_counter
              t == generate(second.det, second.nsources, tid, timestamp,
                            draws)
          IN  /\ second' = [second EXCEPT !.state = "suspended",
                                          !.tid_counter = advance(tid),
                                          !.pulls = @ + 1,
                                          !.yielded = t]
              /\ generator' = [generator EXCEPT !.tid_counter = advance(tid)]
    /\ UNCHANGED <<config, calls, setup, pulls, train, yielded, msg, err,
                   interrupted, transport>>

\* next(generator) of the second instance
Two_NextSecond ==
    /\ pc = "two"
    /\ second.pulls < MaxPulls
    /\ next_second
    /\ UNCHANGED <<config, calls, setup, source_vars, err, interrupted,
                   transport>>

TwoNext == Two_NextFirst \/ Two_NextSecond

TwoSpec == TwoInit /\ [][TwoNext]_vars

(***************************************************************************)
(* The stop protocol of ServeInThread with clients that never run out of   *)
(* requests.  The server has been constructed and started.  The number of  *)
(* requests is unbounded here, so the counters and the content of the      *)
(* trains, which the stop protocol does not read, are left as they are:    *)
(* S_Recv, S_Next, S_Containize and S_Send are the steps T_Recv, T_Next,   *)
(* T_Containize and T_Send on the sockets and the position of the thread   *)
(* alone.  The serving thread and the caller of stop() are scheduled       *)
(* fairly (each is a thread of its own); nothing is assumed of the         *)
(* clients.                                                                *)
(***************************************************************************)
StopArgs ==
    [variant : {"ServeInThread"}, ser : {"msgpack"}, version : {"2.2"},
     detector : {"AGIPD"}, corrected : {TRUE}, nsources : {1},
     datagen : {"zeros"}]

StopInit ==
    /\ cfg \in StopArgs
    /\ pc = "started"
    /\ tpc = "poll"
    /\ sock = "bound"
    /\ ctx = "open"
    /\ serialize = choose_serializer(cfg.ser).serialize
    /\ ser = choose_serializer(cfg.ser).ser
    /\ det = getDetector(cfg.detector, cfg.corrected, cfg.datagen)
    /\ generator = [state |-> "created", tid_counter |-> <<>>]
    /\ pulls = 0
    /\ train = NoTrain
    /\ yielded = NoTrain
    /\ msg = <<>>
    /\ err = ""
    /\ interrupted = FALSE
    /\ inbox = <<>>
    /\ clients = [c \in Clients |-> "idle"]
    /\ rep_peer = 0
    /\ request = ""
    /\ events = {}
    /\ stopper = 0
    /\ nreq = 0
    /\ nrecv = 0
    /\ nnext = 0
    /\ nsent = 0
    /\ second = NoGenerator

\* a client sends a request whenever it has no request outstanding
S_ClientSend ==
    /\ sock = "bound"
    /\ \E c \in Clients, r \in Requests :
          /\ clients[c] = "idle"
          /\ clients' = [clients EXCEPT ![c] = "waiting"]
          /\ inbox' = Append(inbox, [client |-> c, req |-> r])
    /\ UNCHANGED <<config, second, calls, setup, source_vars, err,
                   interrupted, sock, ctx, rep_peer, request, events,
                   stopper, nreq, nrecv, nnext, nsent>>

\* lines 378-380 and 385-386
S_Recv ==
    /\ tpc = "dispatch"
    /\ "server_socket" \in events
    /\ inbox # <<>>
    /\ rep_peer = 0
    /\ request' = Head(inbox).req
    /\ rep_peer' = Head(inbox).client
    /\ inbox' = Tail(inbox)
    /\ tpc' = IF request' = "next" THEN "t_next" ELSE "poll"
    /\ UNCHANGED <<config, second, pc, setup, source_vars, err, interrupted,
                   sock, ctx, clients, events, stopper, nreq, nrecv, nnext,
                   nsent>>

\* line 381
S_Next ==
    /\ tpc = "t_next"
    /\ tpc' = "t_containize"
    /\ UNCHANGED <<config, second, pc, setup, source_vars, err, interrupted,
                   transport>>

\* lines 382-383, for a supported version
S_Containize ==
    /\ tpc = "t_containize"
    /\ cfg.version \in Versions
    /\ tpc' = "t_send"
    /\ UNCHANGED <<config, second, pc, setup, source_vars, err, interrupted,
                   transport>>

\* line 384
S_Send ==
    /\ tpc = "t_send"
    /\ rep_peer # 0
    /\ clients' = [clients EXCEPT ![rep_peer] = "idle"]
    /\ rep_peer' = 0
    /\ tpc' = "poll"
    /\ UNCHANGED <<config, second, pc, setup, source_vars, err, interrupted,
                   sock, ctx, inbox, request, events, stopper, nreq, nrecv,
                   nnext, nsent>>

StopNext ==
    \/ S_ClientSend
    \/ T_Poll \/ S_Recv \/ S_Next \/ S_Containize \/ S_Send \/ T_Break
    \/ T_StopSend \/ T_Join \/ T_Destroy

StopSpec ==
    /\ StopInit
    /\ [][StopNext]_vars
    /\ WF_vars(T_Poll)
    /\ WF_vars(S_Recv)
    /\ WF_vars(S_Next)
    /\ WF_vars(S_Containize)
    /\ WF_vars(S_Send)
    /\ WF_vars(T_Break)
    /\ WF_vars(T_Join)
    /\ WF_vars(T_Destroy)

(***************************************************************************)
(* Reading a train.                                                        *)
(***************************************************************************)
\* The value of a field: an array without the identity of its buffer, a
\* reference as the dict it refers to.
FlatValue(v) ==
    IF v.t = "array"
    THEN [t |-> "array", dtype |-> v.dtype, shape |-> v.shape,
          content |-> v.content]
    ELSE v

FieldValue(heap, v) ==
    IF v.t = "ref"
    THEN [t |-> "dict",
          val |-> [k \in DOMAIN heap[v.ref].val |->
                     FlatValue(heap[v.ref].val[k])]]
    ELSE FlatValue(v)

DictValue(heap, d) == [k \in DOMAIN d.val |-> FieldValue(heap, d.val[k])]

DataOf(t, src) == t.heap[t.data.val[src]]
MetaOf(t, src) == t.heap[t.meta.val[src]]

TrainValue(t) ==
    [data |-> [src \in DOMAIN t.data.val |-> DictValue(t.heap, DataOf(t, src))],
     meta |-> [src \in DOMAIN t.meta.val |-> DictValue(t.heap, MetaOf(t, src))]]

Range(seq) == {seq[i] : i \in 1..Len(seq)}

ArrayKeys(d) == {k \in DOMAIN d.val : IsArray(d.val[k])}

Buffers(d) == {d.val[k].buf : k \in ArrayKeys(d)}

\* The train id of the train pulled last.
PulledTid == BigAdd(TID_EPOCH, pulls - 1)

(***************************************************************************)
(* C1: the k-th pull of a generator yields a train whose trainId is        *)
(* 10000000000 + (k - 1), in every source, for any nsources >= 1.          *)
(***************************************************************************)
C1_TrainIdSequence ==
    pulls > 0 =>
        /\ yielded.data.keys # <<>>
        /\ \A src \in Range(yielded.data.keys) :
              DataOf(yielded, src).val[<<"trainId">>] = PyInt(PulledTid)

C1_Witness ==
    /\ pulls >= 3
    /\ cfg.nsources > 1
    /\ \A src \in Range(yielded.data.keys) :
          DataOf(yielded, src).val[<<"trainId">>] = PyInt(<<10, 2>>)

(***************************************************************************)
(* C8: with nsources = N > 1 a train has exactly the N source keys         *)
(* base-1 .. base-N in its data and its metadata, the unsuffixed base is   *)
(* absent, each metadata record's `source` is its key, and every source's  *)
(* Data and Metadata is a copy of the base content that shares no dict and *)
(* no array buffer with another source.                                    *)
(***************************************************************************)
SuffixedSources == {det.source \o "-" \o ToString(i) : i \in 1..cfg.nsources}

C8_SourcesIndependent ==
    (pulls > 0 /\ cfg.nsources > 1) =>
        /\ Range(yielded.data.keys) = SuffixedSources
        /\ Range(yielded.meta.keys) = SuffixedSources
        /\ DOMAIN yielded.data.val = SuffixedSources
        /\ DOMAIN yielded.meta.val = SuffixedSources
        /\ Len(yielded.data.keys) = cfg.nsources
        /\ Len(yielded.meta.keys) = cfg.nsources
        /\ Cardinality(SuffixedSources) = cfg.nsources
        /\ det.source \notin SuffixedSources
        /\ \A src \in SuffixedSources :
              /\ MetaOf(yielded, src).val[<<"source">>] = PyStr(src)
              /\ DictValue(yielded.heap, DataOf(yielded, src))
                    = DictValue(yielded.heap, yielded.heap[1])
              /\ DictValue(yielded.heap, MetaOf(yielded, src))
                    = [DictValue(yielded.heap, yielded.heap[2])
                          EXCEPT ![<<"source">>] = PyStr(src)]
        /\ Cardinality({yielded.data.val[src] : src \in SuffixedSources}
                       \cup {yielded.meta.val[src] : src \in SuffixedSources})
              = 2 * cfg.nsources
        /\ \A s1, s2 \in SuffixedSources :
              s1 # s2 =>
                  Buffers(DataOf(yielded, s1)) \cap Buffers(DataOf(yielded, s2))
                      = {}

C8_Witness ==
    /\ pulls > 0
    /\ cfg.nsources = 2
    /\ Range(yielded.data.keys)
          = {"FXE_DET_LPD1M-1/DET/detector-1", "FXE_DET_LPD1M-1/DET/detector-2"}

(***************************************************************************)
(* C9: every train of the simulator has the same source keys in its data   *)
(* and its metadata (exactly the detector's source for gen_data), and in   *)
(* every source the Data field trainId and the Metadata field              *)
(* timestamp.tid are the train id the train was generated for.             *)
(***************************************************************************)
TrainInvariants(t, tid) ==
    /\ DOMAIN t.data.val = DOMAIN t.meta.val
    /\ Range(t.data.keys) = DOMAIN t.data.val
    /\ Range(t.meta.keys) = DOMAIN t.meta.val
    /\ DOMAIN t.data.val # {}
    /\ \A src \in DOMAIN t.data.val :
          /\ DataOf(t, src).val[<<"trainId">>] = PyInt(tid)
          /\ MetaOf(t, src).val[<<"timestamp", "tid">>] = PyInt(tid)

C9_TrainInvariants ==
    pulls > 0 =>
        /\ TrainInvariants(yielded, PulledTid)
        /\ cfg.nsources = 1 => DOMAIN yielded.data.val = {det.source}
        /\ \A timestamp \in Timestamps, draws \in [{1} -> Draws] :
              LET t == gen_data(det, generator.tid_counter, timestamp, draws)
              IN  /\ TrainInvariants(t, generator.tid_counter)
                  /\ DOMAIN t.data.val = {det.source}

C9_Witness ==
    /\ pulls = 2
    /\ cfg.nsources = 2
    /\ DOMAIN yielded.data.val = DOMAIN yielded.meta.val
    /\ \A src \in DOMAIN yielded.meta.val :
          MetaOf(yielded, src).val[<<"timestamp", "tid">>] = PyInt(<<10, 1>>)

(***************************************************************************)
(* C3: at version 1.0 containize returns exactly one part for the whole    *)
(* train; at versions 2.1 and 2.2 it returns 2 + 2k parts for each source, *)
(* k the number of array fields of that source, so the sum of 2 + 2k over  *)
(* the sources in all.                                                     *)
(***************************************************************************)
ArrayCount(t, src) == Cardinality(ArrayKeys(DataOf(t, src)))

RECURSIVE PartsExpected(_, _)
PartsExpected(t, i) ==
    IF i > Len(t.data.keys) THEN 0
    ELSE 2 + 2 * ArrayCount(t, t.data.keys[i]) + PartsExpected(t, i + 1)

IsHeader(part) == part.t = "packed" /\ DictHas(part.body, <<"content">>)

\* The parts of one source: its headers and the part after each of them.
PartsOf(src) ==
    {i \in 1..Len(msg) :
        \/ IsHeader(msg[i]) /\ msg[i].body.val[<<"source">>] = PyStr(src)
        \/ /\ i > 1
           /\ IsHeader(msg[i - 1])
           /\ msg[i - 1].body.val[<<"source">>] = PyStr(src)}

C3_PartCount ==
    msg # <<>> =>
        /\ cfg.version = "1.0" => Len(msg) = 1
        /\ cfg.version \in {"2.1", "2.2"} =>
              /\ Len(msg) = PartsExpected(yielded, 1)
              /\ \A src \in DOMAIN yielded.data.val :
                    Cardinality(PartsOf(src)) = 2 + 2 * ArrayCount(yielded, src)

C3_Witness ==
    /\ cfg.version = "2.2"
    /\ cfg.nsources = 2
    /\ cfg.corrected
    /\ Len(msg) = 24

(***************************************************************************)
(* Decoding a reply, as the client does it.  A serialized part is read     *)
(* back by the deserializer of its format (msgpack_numpy rebuilds an array *)
(* from its type name, shape and bytes; a tuple written by msgpack comes   *)
(* back as a list).  A one-part reply is the dict of all sources, each     *)
(* holding its metadata under `metadata`, which stays in the source's      *)
(* Data (test_protocol_1).  Otherwise the parts are consumed in order: a   *)
(* header whose content is not `array` starts the dict of its source, a    *)
(* header whose content is `array` is followed by the raw bytes of the     *)
(* array, which is rebuilt from dtype and shape and put back under path.   *)
(***************************************************************************)
frombuffer(raw, dtype, shape) ==
    [t |-> "array", dtype |-> dtype, shape |-> shape,
     content |-> IF raw.bytes.itemsize = ItemSize(dtype)
                 THEN raw.bytes.content
                 ELSE [kind |-> "reinterpreted"]]

UnpackLeaf(v) ==
    IF v.t = "nd"
    THEN [t |-> "array", dtype |-> v.type, shape |-> v.shape,
          content |-> v.data.content]
    ELSE v

UnpackValue(v) ==
    IF v.t = "dict"
    THEN [t |-> "dict", val |-> [k \in DOMAIN v.val |-> UnpackLeaf(v.val[k])]]
    ELSE UnpackLeaf(v)

deserialize(part) ==
    [k \in DOMAIN part.body.val |-> UnpackValue(part.body.val[k])]

decode_whole(part) ==
    LET data == [src \in DOMAIN part.body.val |->
                    [k \in DOMAIN part.body.val[src].val |->
                        UnpackValue(part.body.val[src].val[k])]]
    IN  [data |-> data,
         meta |-> [src \in DOMAIN data |->
                      IF <<"metadata">> \in DOMAIN data[src]
                      THEN data[src][<<"metadata">>].val ELSE <<>>]]

RECURSIVE decode_parts(_, _, _)
decode_parts(parts, i, acc) ==
    IF i + 1 > Len(parts) THEN acc
    ELSE LET hdr == deserialize(parts[i])
             src == hdr[<<"source">>].v
         IN  IF hdr[<<"content">>] = PyStr("array")
             THEN decode_parts(parts, i + 2,
                    [acc EXCEPT !.data[src] =
                        (hdr[<<"path">>].key :>
                            frombuffer(parts[i + 1], hdr[<<"dtype">>].v,
                                       hdr[<<"shape">>].v)) @@ @])
             ELSE decode_parts(parts, i + 2,
                    [data |-> (src :> deserialize(parts[i + 1])) @@ acc.data,
                     meta |-> (src :> IF <<"metadata">> \in DOMAIN hdr
                                      THEN hdr[<<"metadata">>].val ELSE <<>>)
                                  @@ acc.meta])

IsPrefixed(k) == Len(k) > 1 /\ k[1] = "metadata"

\* keys `metadata.<name>` are moved from Data into Metadata as <name>
strip_prefixed(r) ==
    [data |-> [src \in DOMAIN r.data |->
                  [k \in {x \in DOMAIN r.data[src] : ~IsPrefixed(x)} |->
                      r.data[src][k]]],
     meta |-> [src \in DOMAIN r.data |->
                  [k \in {Tail(x) : x \in {y \in DOMAIN r.data[src] :
                                              IsPrefixed(y)}} |->
                      r.data[src][<<"metadata">> \o k]]]]

decode(parts, vers) ==
    IF Len(parts) = 1 THEN decode_whole(parts[1])
    ELSE LET r == decode_parts(parts, 1, [data |-> <<>>, meta |-> <<>>])
         IN  IF vers = "2.1" THEN strip_prefixed(r)
             ELSE IF vers = "2.0"
             THEN [data |-> r.data,
                   meta |-> [src \in DOMAIN r.data |->
                                r.data[src][<<"metadata">>].val]]
             ELSE r

(***************************************************************************)
(* C2 as stated: for the versions 1.0, 2.1 and 2.2, decoding the parts of  *)
(* containize(t, v) gives back exactly t.  It fails at 1.0, where the      *)
(* decoded Data of every source keeps the key `metadata`.                  *)
(***************************************************************************)
C2_RoundTripExact ==
    (msg # <<>> /\ cfg.version \in {"1.0", "2.1", "2.2"}) =>
        decode(msg, cfg.version) = TrainValue(yielded)

(***************************************************************************)
(* C2 amended: at 2.1 and 2.2 decoding gives back exactly t; at 1.0 it     *)
(* gives back the source keys and the Metadata of t, and for every source  *)
(* the Data of t with one more key, `metadata`, holding that source's      *)
(* Metadata.                                                               *)
(***************************************************************************)
C2_RoundTrip ==
    (msg # <<>> /\ cfg.version \in {"1.0", "2.1", "2.2"}) =>
        LET got == decode(msg, cfg.version)
            want == TrainValue(yielded)
        IN  IF cfg.version = "1.0"
            THEN /\ got.meta = want.meta
                 /\ DOMAIN got.data = DOMAIN want.data
                 /\ \A src \in DOMAIN want.data :
                       got.data[src] =
                           (<<"metadata">> :>
                               [t |-> "dict", val |-> want.meta[src]])
                               @@ want.data[src]
            ELSE got = want

C2_Witness ==
    /\ msg # <<>>
    /\ cfg.version = "2.1"
    /\ cfg.nsources = 2
    /\ serialize = "msgpack"
    /\ decode(msg, cfg.version) = TrainValue(yielded)
    /\ TrainValue(train) # TrainValue(yielded)

(***************************************************************************)
(* C10: where the metadata of a source goes in the reply.  At 1.0 and 2.0  *)
(* the source's dict payload holds the whole metadata record under the     *)
(* single key `metadata`; at 2.1 it holds one key `metadata.<name>` for    *)
(* every metadata field and the dict header carries no `metadata`; at 2.2  *)
(* it holds no metadata key and the dict header carries the record under   *)
(* `metadata`.                                                             *)
(***************************************************************************)
DictHeaderOf(src) ==
    CHOOSE i \in 1..Len(msg) :
        /\ IsHeader(msg[i])
        /\ msg[i].body.val[<<"source">>] = PyStr(src)
        /\ msg[i].body.val[<<"content">>] # PyStr("array")

\* The dict payload of a source: its entry in the one part at 1.0, the part
\* after its dict header otherwise.
PayloadOf(src) ==
    IF cfg.version = "1.0" THEN msg[1].body.val[src]
    ELSE msg[DictHeaderOf(src) + 1].body

MetadataKeys(payload) ==
    {k \in DOMAIN payload.val : k[1] = "metadata"}

C10_MetadataPlacement ==
    msg # <<>> =>
        \A src \in DOMAIN yielded.meta.val :
            LET record == PackFlat(serialize, MetaOf(yielded, src))
                payload == PayloadOf(src)
            IN  /\ cfg.version \in {"1.0", "2.0"} =>
                      /\ MetadataKeys(payload) = {<<"metadata">>}
                      /\ payload.val[<<"metadata">>] = record
                /\ cfg.version = "2.1" =>
                      /\ MetadataKeys(payload) =
                            {<<"metadata">> \o name : name \in DOMAIN record.val}
                      /\ \A name \in DOMAIN record.val :
                            payload.val[<<"metadata">> \o name]
                                = record.val[name]
                      /\ ~DictHas(msg[DictHeaderOf(src)].body, <<"metadata">>)
                /\ cfg.version = "2.2" =>
                      /\ MetadataKeys(payload) = {}
                      /\ DictHas(msg[DictHeaderOf(src)].body, <<"metadata">>)
                      /\ msg[DictHeaderOf(src)].body.val[<<"metadata">>]
                            = record

C10_Witness ==
    /\ msg # <<>>
    /\ cfg.version = "2.2"
    /\ cfg.nsources = 2
    /\ \A src \in DOMAIN yielded.meta.val :
          msg[DictHeaderOf(src)].body.val[<<"metadata">>].val[<<"source">>]
              = PyStr(src)

(***************************************************************************)
(* Reading the server.                                                     *)
(***************************************************************************)
\* A request other than `next` has been received (the last one received).
BadReceived == request \notin {"", "next"}

\* A `next` request has been received and its reply has not been sent.
InFlight == rep_peer # 0 /\ request = "next"

\* The serving loop has been left.
LoopEnded ==
    IF cfg.variant = "start_gen"
    THEN pc \in {"sg_finally", "returned", "raised"}
    ELSE tpc \in {"exited", "crashed"}

ConfigValid ==
    /\ cfg.ser \in Formats
    /\ cfg.version \in Versions
    /\ cfg.detector \in Families
    /\ cfg.datagen \in Generators

(***************************************************************************)
(* C4 as stated: in both servers, receiving a request that is not `next`   *)
(* ends the serving loop, with no train pulled and no reply sent for it.   *)
(* It fails for ServeInThread.run, which goes back to poll.                *)
(***************************************************************************)
C4_BadRequestEndsLoop ==
    BadReceived =>
        /\ LoopEnded
        /\ pulls = nrecv - 1
        /\ nsent = nrecv - 1

(***************************************************************************)
(* C4 amended: in start_gen, receiving a request that is not `next` ends   *)
(* the serving loop; in ServeInThread.run the loop is not ended by it.  In *)
(* both servers no train is pulled for that request, no reply is sent for  *)
(* it, and no later request is served.                                     *)
(***************************************************************************)
C4_BadRequestNotServed ==
    /\ [](BadReceived =>
            /\ cfg.variant = "start_gen" => LoopEnded
            /\ cfg.variant = "ServeInThread" => tpc \notin {"t_next", "t_containize", "t_send"}
            /\ pulls = nrecv - 1
            /\ nsent = nrecv - 1
            /\ rep_peer # 0)
    /\ [][BadReceived =>
            /\ BadReceived'
            /\ nrecv' = nrecv
            /\ pulls' = pulls
            /\ nsent' = nsent]_vars

C4_Witness ==
    /\ BadReceived
    /\ cfg.variant = "ServeInThread"
    /\ tpc = "poll"
    /\ nrecv = 1
    /\ nsent = 0
    /\ inbox # <<>>
    /\ Head(inbox).req = "next"

(***************************************************************************)
(* C5: every configuration error is raised before a socket is bound, so    *)
(* the endpoint is never bound while the configuration is invalid.  The    *)
(* code binds first (start_gen) and checks the version only when the first *)
(* train is encoded (both servers).                                        *)
(***************************************************************************)
C5_ErrorsBeforeBind == sock = "bound" => ConfigValid

(***************************************************************************)
(* C6: containize with a version outside the enumerated set fails with an  *)
(* error and produces no output: no part is returned, none is sent, and    *)
(* the train passed in is left as it was.                                  *)
(***************************************************************************)
C6_InvalidVersionNoOutput ==
    cfg.version \notin Versions =>
        /\ msg = <<>>
        /\ nsent = 0
        /\ train = yielded
        /\ pc # "sg_send"
        /\ tpc # "t_send"
        /\ (pulls > 0 /\ pc \notin {"sg_containize"}
               /\ tpc \notin {"t_containize"} /\ ~interrupted)
              => err = "ValueError: Invalid version"

C6_Witness ==
    /\ cfg.version = "3.0"
    /\ err = "ValueError: Invalid version"
    /\ pulls = 1
    /\ rep_peer # 0
    /\ train = yielded
    /\ train # NoTrain

(***************************************************************************)
(* C7: the threaded server honours a stop signal only between trains: when *)
(* the loop exits on a stop signal, every `next` request received has had  *)
(* its train generated and its reply sent; the loop never exits between    *)
(* receiving a `next` request and sending its reply.                       *)
(***************************************************************************)
C7_StopOnlyBetweenTrains ==
    tpc = "exited" =>
        /\ ~InFlight
        /\ pulls = nsent
        /\ request = "next" => nsent = nrecv

C7_Witness ==
    /\ tpc = "exited"
    /\ pc = "signalled"
    /\ request = "next"
    /\ nsent = 2
    /\ nrecv = 2

(***************************************************************************)
(* C11: containize does not modify the train it is handed: after it has    *)
(* returned, the data and metadata maps hold the same keys and field       *)
(* values as before the call.  The code merges the metadata into the       *)
(* per-source dicts (1.0, 2.0, 2.1) and pops the arrays out of them (2.0,  *)
(* 2.1, 2.2).                                                              *)
(***************************************************************************)
C11_TrainUnmodified ==
    (msg # <<>> /\ cfg.version \in Versions) =>
        TrainValue(train) = TrainValue(yielded)

(***************************************************************************)
(* C12: whenever start_gen terminates after its endpoint has been bound,   *)
(* the socket has been closed and the context destroyed.  The statements   *)
(* between bind and try (lines 299-314) are outside the try block.         *)
(***************************************************************************)
C12_ResourcesReleased ==
    (cfg.variant = "start_gen" /\ pc \in {"returned", "raised"}) =>
        /\ sock = "closed"
        /\ ctx = "destroyed"

(***************************************************************************)
(* C13 as stated: for every family and for corrected and raw data, the     *)
(* image of the zeros generator has no non-zero element and every element  *)
(* v of the image of the random generator satisfies 1500 <= v < 1600 after *)
(* conversion to the element type.  It fails for corrected data: a draw    *)
(* within 2^-14 of 1600 becomes the float32 1600.0.                        *)
(***************************************************************************)
ImageOf(t, src) == DataOf(t, src).val[<<"image", "data">>]

ImageElems(t, src) == Range(ImageOf(t, src).content.elems)

C13_GeneratorBounds ==
    pulls > 0 =>
        \A src \in DOMAIN yielded.data.val :
            /\ ImageOf(yielded, src).dtype
                  = IF cfg.corrected THEN "float32" ELSE "uint16"
            /\ cfg.datagen = "zeros" =>
                  \A v \in ImageElems(yielded, src) : v = 0
            /\ cfg.datagen = "random" =>
                  \A v \in ImageElems(yielded, src) :
                      UniformLow * Unit <= v /\ v < UniformHigh * Unit

(***************************************************************************)
(* C13 amended: the image of the zeros generator has no non-zero element;  *)
(* every element v of the image of the random generator satisfies          *)
(* 1500 <= v < 1600 for raw data (uint16) and 1500 <= v <= 1600 for        *)
(* corrected data (float32).                                               *)
(***************************************************************************)
C13_GeneratorBoundsClosed ==
    pulls > 0 =>
        \A src \in DOMAIN yielded.data.val :
            /\ ImageOf(yielded, src).dtype
                  = IF cfg.corrected THEN "float32" ELSE "uint16"
            /\ ImageOf(yielded, src).shape
                  = <<det.cls.modules, det.cls.mod_y, det.cls.mod_x,
                      det.cls.pulses>>
            /\ ImageElems(yielded, src) # {}
            /\ cfg.datagen = "zeros" =>
                  \A v \in ImageElems(yielded, src) : v = 0
            /\ cfg.datagen = "random" =>
                  \A v \in ImageElems(yielded, src) :
                      /\ UniformLow * Unit <= v
                      /\ IF cfg.corrected THEN v <= UniformHigh * Unit
                         ELSE v < UniformHigh * Unit

C13_Witness ==
    /\ pulls > 0
    /\ cfg.datagen = "random"
    /\ cfg.corrected
    /\ cfg.detector = "LPD"
    /\ \A src \in DOMAIN yielded.data.val :
          ImageElems(yielded, src) = {UniformHigh * Unit}

(***************************************************************************)
(* C17: in a reply encoded at 2.1 or 2.2 the parts of one source are a     *)
(* contiguous run: the dict header (content names the serialization), the  *)
(* dict payload, then for each array field one header with content         *)
(* `array` carrying source, path, dtype and shape, followed by one         *)
(* raw-bytes part.  The dict payload holds no array, and every array field *)
(* of the source is in exactly one header/bytes pair.                      *)
(***************************************************************************)
IsArrayHeader(part, src) ==
    /\ part.t = "packed"
    /\ DOMAIN part.body.val
          = {<<"source">>, <<"content">>, <<"path">>, <<"dtype">>, <<"shape">>}
    /\ part.body.val[<<"source">>] = PyStr(src)
    /\ part.body.val[<<"content">>] = PyStr("array")

IsDictHeader(part, src) ==
    /\ part.t = "packed"
    /\ {<<"source">>, <<"content">>} \subseteq DOMAIN part.body.val
    /\ part.body.val[<<"source">>] = PyStr(src)
    /\ part.body.val[<<"content">>] = PyStr(ser)
    /\ part.body.val[<<"content">>] # PyStr("array")

IsDictPayload(part) ==
    /\ part.t = "packed"
    /\ \A k \in DOMAIN part.body.val :
          part.body.val[k].t \notin {"array", "nd"}

\* The run of src starts at pos: header, payload, then k header/bytes pairs.
RunOf(src, pos) ==
    LET k == ArrayCount(yielded, src)
        arrays == DataOf(yielded, src)
        PathAt(j) == msg[pos + 2 * j].body.val[<<"path">>].key
    IN  /\ pos + 1 + 2 * k <= Len(msg)
        /\ IsDictHeader(msg[pos], src)
        /\ IsDictPayload(msg[pos + 1])
        /\ \A j \in 1..k :
              /\ IsArrayHeader(msg[pos + 2 * j], src)
              /\ PathAt(j) \in ArrayKeys(arrays)
              /\ msg[pos + 2 * j].body.val[<<"dtype">>]
                    = PyStr(arrays.val[PathAt(j)].dtype)
              /\ msg[pos + 2 * j].body.val[<<"shape">>].v
                    = arrays.val[PathAt(j)].shape
              /\ msg[pos + 2 * j + 1].t = "raw"
              /\ msg[pos + 2 * j + 1].bytes = tobytes(arrays.val[PathAt(j)])
        /\ {PathAt(j) : j \in 1..k} = ArrayKeys(arrays)

RECURSIVE RunsFrom(_, _)
RunsFrom(i, pos) ==
    IF i > Len(yielded.data.keys) THEN pos = Len(msg) + 1
    ELSE /\ RunOf(yielded.data.keys[i], pos)
         /\ RunsFrom(i + 1,
                     pos + 2 + 2 * ArrayCount(yielded, yielded.data.keys[i]))

C17_PartOrder ==
    (msg # <<>> /\ cfg.version \in {"2.1", "2.2"}) => RunsFrom(1, 1)

C17_Witness ==
    /\ msg # <<>>
    /\ cfg.version = "2.1"
    /\ cfg.nsources = 2
    /\ ~cfg.corrected
    /\ Len(msg) = 20
    /\ msg[11].body.val[<<"source">>] = PyStr(yielded.data.keys[2])
    /\ msg[13].body.val[<<"content">>] = PyStr("array")
    /\ msg[14].t = "raw"

(***************************************************************************)
(* The states of a server: Idle (waiting for a request), Serving (a `next` *)
(* request has been received: pulling, encoding, sending) and Stopped (the *)
(* serving loop has been left).                                            *)
(***************************************************************************)
Idle == pc = "sg_recv" \/ tpc \in {"poll", "dispatch"}

Serving ==
    \/ pc \in {"sg_next", "sg_containize", "sg_send"}
    \/ tpc \in {"t_next", "t_containize", "t_send"}

\* start_gen leaves its loop through the finally block, which closes the
\* socket; an error raised before the loop leaves the socket bound.
Stopped ==
    IF cfg.variant = "start_gen"
    THEN pc = "sg_finally" \/ (pc \in {"returned", "raised"} /\ sock = "closed")
    ELSE tpc \in {"exited", "crashed"}

(***************************************************************************)
(* C14 as stated: in every reachable state the replies sent, the trains    *)
(* pulled and the `next` requests received are equal in number, except     *)
(* that the replies (and, until the pull, the trains) are one less while a *)
(* request is being served.  It fails once a serving loop has been left in *)
(* the middle of a request.                                                *)
(***************************************************************************)
C14_CountsEqualUnlessServing ==
    IF Serving
    THEN /\ nsent = nnext - 1
         /\ pulls \in {nnext - 1, nnext}
    ELSE /\ nsent = pulls
         /\ pulls = nnext

(***************************************************************************)
(* C14 amended: always replies sent <= trains pulled <= `next` requests    *)
(* received <= replies sent + 1.  The three are equal whenever the server  *)
(* waits for a request; they differ only while a request is being served   *)
(* or after the serving loop was left in the middle of a request (by an    *)
(* interruption or an encoding error), whose reply is then never sent.     *)
(* The server receives a request only when no reply is owed, and sends a   *)
(* reply only to a `next` request that is unanswered, one reply each.      *)
(***************************************************************************)
C14_OneRequestOneReply ==
    /\ [](/\ nsent <= pulls
          /\ pulls <= nnext
          /\ nnext <= nsent + 1
          /\ Idle => (nsent = pulls /\ pulls = nnext /\ ~InFlight)
          /\ Serving => (nnext = nsent + 1 /\ InFlight)
          /\ nsent # nnext =>
                \/ Serving
                \/ LoopEnded /\ InFlight /\ (interrupted \/ err # ""))
    /\ [][/\ nrecv' # nrecv =>
                /\ nrecv' = nrecv + 1
                /\ rep_peer = 0
                /\ nsent = pulls
                /\ pulls = nnext
          /\ nsent' # nsent =>
                /\ nsent' = nsent + 1
                /\ InFlight
                /\ pulls = nnext
                /\ nnext = nsent + 1
                /\ rep_peer' = 0
          /\ pulls' # pulls =>
                /\ pulls' = pulls + 1
                /\ InFlight
                /\ pulls = nsent]_vars

C14_Witness ==
    /\ LoopEnded
    /\ interrupted
    /\ InFlight
    /\ nnext = 2
    /\ pulls = 2
    /\ nsent = 1

(***************************************************************************)
(* C15 as stated: from Serving the server always returns to Idle, and      *)
(* Stopped is reached only through the stop signal of the threaded         *)
(* variant; no request content and no encoding outcome moves the server to *)
(* Stopped.  (No transport error is raised by the transport as modelled;   *)
(* the steps of a process interruption are left aside.)                    *)
(***************************************************************************)
StopSignalTaken ==
    /\ cfg.variant = "ServeInThread"
    /\ "stopper_r" \in events
    /\ stopper' = stopper - 1

C15_StoppedOnlyByStopSignal ==
    [][interrupted' = interrupted =>
          /\ (Serving /\ ~Serving') => Idle'
          /\ (~Stopped /\ Stopped') => StopSignalTaken]_vars

(***************************************************************************)
(* C15 amended: Idle -> Serving happens only by receiving a `next`         *)
(* request; from Serving the server returns to Idle by sending the reply,  *)
(* or goes to Stopped on an encoding error (both variants) or an           *)
(* interruption (start_gen).  From Idle, the threaded variant goes to      *)
(* Stopped only through the stop signal and never because of a request;    *)
(* start_gen goes to Stopped on a request that is not `next` or on an      *)
(* interruption.  Stopped is terminal.                                     *)
(***************************************************************************)
C15_StateMachine ==
    [][/\ Stopped => Stopped'
       /\ (Idle \/ Serving) => (Idle' \/ Serving' \/ Stopped')
       /\ (Idle /\ Serving') => (nnext' = nnext + 1 /\ request' = "next")
       /\ (Serving /\ Idle') => nsent' = nsent + 1
       /\ (Serving /\ Stopped') =>
             \/ err' # "" /\ msg' = <<>> /\ nsent' = nsent
             \/ cfg.variant = "start_gen" /\ interrupted'
       /\ (Idle /\ Stopped') =>
             IF cfg.variant = "ServeInThread"
             THEN StopSignalTaken /\ nrecv' = nrecv
             ELSE \/ nrecv' = nrecv + 1 /\ BadReceived'
                  \/ interrupted']_vars

C15_Witness ==
    /\ cfg.variant = "start_gen"
    /\ Stopped
    /\ pc = "returned"
    /\ BadReceived
    /\ ~interrupted
    /\ err = ""
    /\ nsent = 1

(***************************************************************************)
(* C18: two generate instances pulled in any interleaving each yield the   *)
(* trainIds 10000000000, 10000000001, ... in their own pull order, and a   *)
(* pull on one changes neither the next trainId of the other nor the train *)
(* the other has produced; the train a pull produces is the one generate   *)
(* builds from the instance's own detector, nsources and counter.          *)
(***************************************************************************)
TrainIds(t) ==
    {t.heap[t.data.val[src]].val[<<"trainId">>] : src \in DOMAIN t.data.val}

NextTid(state, tid_counter) ==
    IF state = "created" THEN TID_EPOCH ELSE tid_counter

C18_SourcesIndependent ==
    /\ [](/\ NextTid(generator.state, generator.tid_counter)
                = BigAdd(TID_EPOCH, pulls)
          /\ NextTid(second.state, second.tid_counter)
                = BigAdd(TID_EPOCH, second.pulls)
          /\ pulls > 0 =>
                TrainIds(yielded) = {PyInt(BigAdd(TID_EPOCH, pulls - 1))}
          /\ second.pulls > 0 =>
                TrainIds(second.yielded)
                   = {PyInt(BigAdd(TID_EPOCH, second.pulls - 1))})
    /\ [][/\ pulls' # pulls =>
                /\ pulls' = pulls + 1
                /\ second' = second
          /\ second.pulls' # second.pulls =>
                /\ second.pulls' = second.pulls + 1
                /\ UNCHANGED <<generator, pulls, train, yielded, det>>
                /\ \E timestamp \in Timestamps, draws \in [{1} -> Draws] :
                      second.yielded'
                         = generate(second.det, second.nsources,
                                    BigAdd(TID_EPOCH, second.pulls),
                                    timestamp, draws)]_vars

C18_Witness ==
    /\ pulls = 1
    /\ second.pulls = 3
    /\ second.det.source # det.source
    /\ TrainIds(yielded) = {PyInt(<<10, 0>>)}
    /\ TrainIds(second.yielded) = {PyInt(<<10, 2>>)}
    /\ generator.tid_counter = <<10, 1>>
    /\ second.tid_counter = <<10, 3>>

(***************************************************************************)
(* C16: in the threaded server, once stop() has sent its signal, the       *)
(* serving loop eventually exits and stop() returns with the context       *)
(* destroyed, under fair scheduling of the serving thread and of stop(),   *)
(* whatever the clients do.  The loop looks at the stop channel only when  *)
(* no request is ready (`if server_socket in events ... elif stopper_r in  *)
(* events`), so clients that keep a request pending at every poll keep the *)
(* loop serving forever.                                                   *)
(***************************************************************************)
C16_StopHonoured ==
    (pc = "signalled") ~>
        (pc = "stopped" /\ tpc = "exited" /\ ctx = "destroyed")

=============================================================================
